---- MODULE Spec2Model ----
(***************************************************************************)
(* Model of img_conv.py: main, process_directory and convert_image, run    *)
(* against a small file system.  The imaging library (Pillow) is modelled  *)
(* by what its calls do to files and handles:                              *)
(*   Image.open  reads the header only; it fails on a missing file, on a   *)
(*               directory and on data that is no image, and closes its    *)
(*               own handle when it fails;                                 *)
(*   load        (run by convert("RGB") and at the start of save) fails on *)
(*               damaged pixel data, before the output file is opened;     *)
(*   save        opens the output path "w+b" (truncating a file that is    *)
(*               there), runs the encoder, and when the encoder fails it   *)
(*               removes the file only if this call created it.            *)
(* Handles follow CPython reference counting: an object is released when   *)
(* its last reference goes away.                                           *)
(***************************************************************************)
EXTENDS Integers, Sequences, FiniteSets, TLC

MaxEntries == 2      \* files placed in input_dir
MaxVanish == 1       \* deletions by the environment
MaxRuns == 2         \* runs of the program, one after the other
DefaultQuality == 80

VARIABLES args, dstate, files, order, pc, run, pfmt, listing, i, ent,
          handles, lines, runStart, callSnap, prevOut, prevLines, vanished

vars == <<args, dstate, files, order, pc, run, pfmt, listing, i, ent,
          handles, lines, runStart, callSnap, prevOut, prevLines, vanished>>

(***************************************************************************)
(* File contents                                                           *)
(***************************************************************************)
Content(t, f, m, p, g, ok, q) ==
    [type |-> t, fmt |-> f, mode |-> m, pix |-> p, gen |-> g, intact |-> ok, q |-> q]

NoContent == Content("none", "-", "-", "-", 0, FALSE, 0)
Text      == Content("text", "-", "-", "-", 0, TRUE, 0)
Directory == Content("dir", "-", "-", "-", 0, TRUE, 0)
Empty     == Content("empty", "-", "-", "-", 0, TRUE, 0)
Picture(f, m, p, ok) == Content("img", f, m, p, 0, ok, 0)

\* A file name is the sequence of its dot-separated parts: <<"a","png">> is a.png.
Universe ==
    ( <<"a", "png">> :> Picture("PNG", "RGBA", "p1", TRUE)  ) @@
    ( <<"a", "bmp">> :> Picture("BMP", "RGB", "p2", TRUE)   ) @@
    ( <<"b", "txt">> :> Text                                 ) @@
    ( <<"c", "jpg">> :> Picture("JPEG", "RGB", "p3", FALSE) ) @@
    ( <<"sub">>      :> Directory                            )

\* What output_dir may hold before the first run.
OldOutputs == ( <<"a", "jpg">> :> Picture("JPEG", "RGB", "p0", TRUE) )

Formats == {"webp", "PNG", "jpg", "jpeg", "gif"}

NoFiles == [n \in {} |-> NoContent]

Put(f, n, c) == [x \in (DOMAIN f) \cup {n} |-> IF x = n THEN c ELSE f[x]]
Remove(f, n) == [x \in (DOMAIN f) \ {n} |-> f[x]]
Restrict(f, S) == [x \in S |-> f[x]]

RECURSIVE Without(_, _)
Without(s, n) ==
    IF s = <<>> THEN <<>>
    ELSE IF Head(s) = n THEN Without(Tail(s), n)
    ELSE <<Head(s)>> \o Without(Tail(s), n)

InsertAt(s, k, n) == SubSeq(s, 1, k) \o <<n>> \o SubSeq(s, k + 1, Len(s))

Orders(S) == {s \in [1..Cardinality(S) -> S] : \A x \in S : \E k \in DOMAIN s : s[k] = x}

(***************************************************************************)
(* Pure functions of the program                                           *)
(***************************************************************************)
\* str.lower()
Lower(s) ==
    CASE s = "PNG" -> "png"
      [] OTHER -> s

\* os.path.splitext(os.path.basename(input_path))[0]
Stem(name) ==
    IF Len(name) <= 1 THEN name
    ELSE IF Len(name) = 2 /\ name[1] = "" THEN name
    ELSE SubSeq(name, 1, Len(name) - 1)

OutputFilenameKeepExt(name, output_format) == name \o <<Lower(output_format)>>

\* line 17: stem + "." + output_format.lower()
OutputFilename(name, output_format) == Stem(name) \o <<Lower(output_format)>>

Supported(output_format) == Lower(output_format) \in {"webp", "png", "jpeg", "jpg"}

\* The encoder img.save() picks: "webp" is named in the call (line 22), the
\* others come from the extension of the output path (line 24).
Encoder(output_format) ==
    CASE Lower(output_format) = "webp" -> "WEBP"
      [] Lower(output_format) = "png" -> "PNG"
      [] Lower(output_format) \in {"jpeg", "jpg"} -> "JPEG"
      [] OTHER -> "-"

Lossy(enc) == enc \in {"WEBP", "JPEG"}

\* The JPEG encoder cannot write an alpha channel; convert("RGB") (line 21)
\* removes it for webp, and PNG writes every mode.
EncoderRejects(c, output_format) ==
    Encoder(output_format) = "JPEG" /\ c.mode # "RGB"

\* The bytes img.save() writes for the decoded image c.
Encode(c, output_format, q) ==
    LET enc == Encoder(output_format) IN
    Content("img", enc,
            IF enc = "WEBP" THEN "RGB" ELSE c.mode,
            c.pix,
            IF Lossy(enc) THEN c.gen + 1 ELSE c.gen,
            TRUE,
            IF enc = "WEBP" THEN q ELSE 0)

(***************************************************************************)
(* File system queries                                                     *)
(***************************************************************************)
input_dir == args.input_dir
output_dir == args.output_dir

\* os.path.exists
Exists(d) == dstate[d] \in {"file", "dir", "unreadable"}
IsDirAsExists(d) == Exists(d)
\* os.path.isdir
IsDir(d) == dstate[d] \in {"dir", "unreadable"}
IsFileAsExists(d, n) == n \in DOMAIN files[d]
\* os.path.isfile
IsFile(d, n) == n \in DOMAIN files[d] /\ files[d][n].type # "dir"
\* Image.open succeeds
Opens(d, n) == n \in DOMAIN files[d] /\ files[d][n].type = "img"

TrialHandle(n) == [by |-> "process_directory", path |-> n]
ImageHandle(n) == [by |-> "convert_image", path |-> n]

\* The value of the expression statement at line 55 is referenced by nothing
\* once the statement is over.
ReleaseTempLeak(hs, n) == hs
ReleaseTemp(hs, n) == hs \ {TrialHandle(n)}
\* convert_image's local img goes away when the function returns.
ReleaseLocals(hs, n) == hs \ {ImageHandle(n)}

Line(k, n) == [kind |-> k, path |-> n]
NoPath == <<>>

FreshEntry(n) ==
    [name |-> n, kind |-> files[input_dir][n].type, visited |-> FALSE, isfile |-> FALSE,
     trial |-> "none", called |-> FALSE, src |-> NoContent, enc |-> NoContent,
     opened |-> FALSE, vanishedAt |-> "never"]

Terminal == {"done", "rejected", "crashed"}

(***************************************************************************)
(* Initial states                                                          *)
(***************************************************************************)
Init ==
    /\ args \in [input_dir : {"d1"}, output_dir : {"d1", "d2"},
                 output_format : Formats, quality : {DefaultQuality},
                 entry : {"main", "process_directory"}]
    /\ \E s1 \in {"absent", "file", "dir", "unreadable"},
          s2 \in {"absent", "blocked", "file", "dir"} :
          /\ args.output_dir = "d1" => s2 = "absent"
          /\ dstate = [d \in {"d1", "d2"} |-> IF d = "d1" THEN s1 ELSE s2]
    /\ \E S \in SUBSET (DOMAIN Universe), old \in SUBSET (DOMAIN OldOutputs) :
          /\ Cardinality(S) <= MaxEntries
          /\ dstate["d1"] # "dir" => S = {}
          /\ dstate["d2"] # "dir" => old = {}
          /\ files = [d \in {"d1", "d2"} |->
                        IF d = "d1" THEN Restrict(Universe, S) ELSE Restrict(OldOutputs, old)]
          /\ order \in Orders(S)
    /\ pc = "main"
    /\ run = 1
    /\ pfmt = "-"
    /\ listing = <<>>
    /\ i = 0
    /\ ent = <<>>
    /\ handles = {}
    /\ lines = <<>>
    /\ runStart = [files |-> files[args.output_dir], state |-> dstate[args.output_dir]]
    /\ callSnap = NoFiles
    /\ prevOut = NoFiles
    /\ prevLines = <<>>
    /\ vanished = 0

(***************************************************************************)
(* Steps of the program                                                    *)
(***************************************************************************)
name == listing[i]

\* The loop of line 50 moves to the next entry, or is over.
Advance ==
    /\ i' = i + 1
    /\ pc' = IF i + 1 > Len(listing) THEN "return" ELSE "isfile"

NeedsCreateNever(d) == FALSE
\* line 46
NeedsCreate(d) == ~Exists(d)

CanOpenForWriteExclusive(d, existed) == dstate[d] = "dir" /\ ~existed
\* builtins.open(final_output_path, "w+b") inside img.save()
CanOpenForWrite(d, existed) == dstate[d] = "dir"

StatusLinesNoReturn(outcome, n) ==
    IF outcome = "unsupported" THEN <<Line("unsupported", n), Line("converted", n)>>
    ELSE <<Line(outcome, n)>>
\* The print of lines 26, 29, 32 or 34 that ends a call of convert_image.
StatusLines(outcome, n) == <<Line(outcome, n)>>

\* A file written into output_dir; when that is input_dir too, a new name
\* takes some place in the directory's order.
WriteFile(n, c) ==
    /\ files' = [files EXCEPT ![output_dir] = Put(@, n, c)]
    /\ IF output_dir = input_dir /\ n \notin DOMAIN files[input_dir]
       THEN \E k \in 0..Len(order) : order' = InsertAt(order, k, n)
       ELSE order' = order

\* lines 69-78: main parses the arguments and checks input_dir
main ==
    /\ pc = "main"
    /\ args.entry = "main"
    /\ IF IsDir(input_dir)
       THEN /\ pfmt' = Lower(args.output_format)
            /\ pc' = "makedirs"
            /\ lines' = lines
       ELSE /\ lines' = Append(lines, Line("no_input_dir", NoPath))
            /\ pc' = "rejected"
            /\ pfmt' = pfmt
    /\ UNCHANGED <<args, dstate, files, order, run, listing, i, ent, handles,
                   runStart, callSnap, prevOut, prevLines, vanished>>

\* process_directory called by another program, with the arguments as given
process_directory ==
    /\ pc = "main"
    /\ args.entry = "process_directory"
    /\ pfmt' = args.output_format
    /\ pc' = "makedirs"
    /\ UNCHANGED <<args, dstate, files, order, run, listing, i, ent, handles, lines,
                   runStart, callSnap, prevOut, prevLines, vanished>>

\* lines 46-48
makedirs ==
    /\ pc = "makedirs"
    /\ IF ~NeedsCreate(output_dir)
       THEN /\ pc' = "listdir"
            /\ UNCHANGED <<dstate, lines>>
       ELSE IF dstate[output_dir] = "blocked"
       THEN /\ pc' = "crashed"          \* os.makedirs raises, nothing catches it
            /\ UNCHANGED <<dstate, lines>>
       ELSE /\ dstate' = [dstate EXCEPT ![output_dir] = "dir"]
            /\ lines' = Append(lines, Line("created", NoPath))
            /\ pc' = "listdir"
    /\ UNCHANGED <<args, files, order, run, pfmt, listing, i, ent, handles,
                   runStart, callSnap, prevOut, prevLines, vanished>>

\* line 50: os.listdir(input_dir)
listdir ==
    /\ pc = "listdir"
    /\ IF dstate[input_dir] = "dir"
       THEN /\ listing' = order
            /\ ent' = [k \in 1..Len(order) |-> FreshEntry(order[k])]
            /\ i' = 1
            /\ pc' = IF Len(order) = 0 THEN "return" ELSE "isfile"
       ELSE /\ pc' = "crashed"          \* os.listdir raises, nothing catches it
            /\ UNCHANGED <<listing, ent, i>>
    /\ UNCHANGED <<args, dstate, files, order, run, pfmt, handles, lines,
                   runStart, callSnap, prevOut, prevLines, vanished>>

\* lines 51-52
isfile ==
    /\ pc = "isfile"
    /\ LET f == IsFile(input_dir, name) IN
       /\ ent' = [ent EXCEPT ![i].visited = TRUE, ![i].isfile = f]
       /\ IF f THEN pc' = "trial" /\ i' = i ELSE Advance
    /\ UNCHANGED <<args, dstate, files, order, run, pfmt, listing, handles, lines,
                   runStart, callSnap, prevOut, prevLines, vanished>>

\* lines 55, 57-58: the trial decode
trial ==
    /\ pc = "trial"
    /\ IF Opens(input_dir, name)
       THEN /\ handles' = handles \cup {TrialHandle(name)}
            /\ ent' = [ent EXCEPT ![i].trial = "ok"]
            /\ pc' = "open"
            /\ UNCHANGED <<i, lines>>
       ELSE /\ ent' = [ent EXCEPT ![i].trial = "fail"]
            /\ lines' = Append(lines, Line("skip", name))
            /\ handles' = handles
            /\ Advance
    /\ UNCHANGED <<args, dstate, files, order, run, pfmt, listing,
                   runStart, callSnap, prevOut, prevLines, vanished>>

\* lines 56, 16, 31-34: convert_image is called and opens the image
convert_image_open ==
    /\ pc = "open"
    /\ callSnap' = files[output_dir]
    /\ IF Opens(input_dir, name)
       THEN /\ handles' = ReleaseTemp(handles, name) \cup {ImageHandle(name)}
            /\ ent' = [ent EXCEPT ![i].called = TRUE, ![i].src = files[input_dir][name]]
            /\ pc' = "save"
            /\ UNCHANGED <<i, lines>>
       ELSE /\ handles' = ReleaseTemp(handles, name)
            /\ ent' = [ent EXCEPT ![i].called = TRUE]
            /\ lines' = lines \o StatusLines(IF name \in DOMAIN files[input_dir]
                                             THEN "error" ELSE "not_found", name)
            /\ Advance
    /\ UNCHANGED <<args, dstate, files, order, run, pfmt, listing,
                   runStart, prevOut, prevLines, vanished>>

\* lines 17-34: the output path, the encoding, the status line
convert_image_save ==
    /\ pc = "save"
    /\ LET c == ent[i].src
           out == OutputFilename(name, pfmt)
           existed == out \in DOMAIN files[output_dir]
       IN
       \/ /\ ~Supported(pfmt)
          /\ lines' = lines \o StatusLines("unsupported", name)
          /\ UNCHANGED <<files, order, ent>>
       \/ /\ Supported(pfmt)
          /\ ~c.intact \/ ~CanOpenForWrite(output_dir, existed)
          /\ lines' = lines \o StatusLines("error", name)
          /\ UNCHANGED <<files, order, ent>>
       \/ /\ Supported(pfmt)
          /\ c.intact /\ CanOpenForWrite(output_dir, existed)
          /\ EncoderRejects(c, pfmt)
          /\ ent' = [ent EXCEPT ![i].opened = TRUE]
          /\ IF existed
             THEN WriteFile(out, Empty)      \* truncated by "w+b", left behind
             ELSE UNCHANGED <<files, order>> \* created, then removed
          /\ lines' = lines \o StatusLines("error", name)
       \/ /\ Supported(pfmt)
          /\ c.intact /\ CanOpenForWrite(output_dir, existed)
          /\ ~EncoderRejects(c, pfmt)
          /\ ent' = [ent EXCEPT ![i].opened = TRUE,
                                ![i].enc = Encode(c, pfmt, args.quality)]
          /\ WriteFile(out, Encode(c, pfmt, args.quality))
          /\ lines' = lines \o StatusLines("converted", name)
    /\ handles' = ReleaseLocals(handles, name)
    /\ Advance
    /\ UNCHANGED <<args, dstate, run, pfmt, listing,
                   runStart, callSnap, prevOut, prevLines, vanished>>

\* process_directory returns; main prints line 81
return ==
    /\ pc = "return"
    /\ lines' = IF args.entry = "main" THEN Append(lines, Line("completed", NoPath))
                ELSE lines
    /\ pc' = "done"
    /\ UNCHANGED <<args, dstate, files, order, run, pfmt, listing, i, ent, handles,
                   runStart, callSnap, prevOut, prevLines, vanished>>

\* The environment deletes a listed file that convert_image has not decoded yet.
Vanish ==
    /\ pc \in {"isfile", "trial", "open"}
    /\ output_dir # input_dir
    /\ vanished < MaxVanish
    /\ \E k \in i..Len(listing) :
          /\ IsFile(input_dir, listing[k])
          /\ files' = [files EXCEPT ![input_dir] = Remove(@, listing[k])]
          /\ order' = Without(order, listing[k])
          /\ ent' = [ent EXCEPT ![k].vanishedAt = IF k = i THEN pc ELSE "isfile"]
    /\ vanished' = vanished + 1
    /\ UNCHANGED <<args, dstate, pc, run, pfmt, listing, i, handles, lines,
                   runStart, callSnap, prevOut, prevLines>>

\* The program is started again with the same arguments.
NewRun ==
    /\ pc \in Terminal
    /\ run < MaxRuns
    /\ run' = run + 1
    /\ prevOut' = files[output_dir]
    /\ prevLines' = lines
    /\ runStart' = [files |-> files[output_dir], state |-> dstate[output_dir]]
    /\ pc' = "main"
    /\ pfmt' = "-"
    /\ listing' = <<>>
    /\ i' = 0
    /\ ent' = <<>>
    /\ handles' = {}
    /\ lines' = <<>>
    /\ callSnap' = NoFiles
    /\ UNCHANGED <<args, dstate, files, order, vanished>>

Next ==
    \/ main
    \/ process_directory
    \/ makedirs
    \/ listdir
    \/ isfile
    \/ trial
    \/ convert_image_open
    \/ convert_image_save
    \/ return
    \/ Vanish
    \/ NewRun

Spec == Init /\ [][Next]_vars

(***************************************************************************)
(* Properties                                                              *)
(***************************************************************************)
LinesOf(n) == {k \in 1..Len(lines) : lines[k].path = n}
KindsOf(n) == {lines[k].kind : k \in LinesOf(n)}
Count(kind) == Cardinality({k \in 1..Len(lines) : lines[k].kind = kind})
\* The loop is done with entry k.
Processed(k) == k < i \/ pc \in {"return", "done"}
Failures == {"unsupported", "not_found", "error"}

\* C1: every entry of the listing that os.path.isfile finds to be a regular
\* file produces exactly one status line, whatever its outcome (skip, not
\* found, error, unsupported format, success), every other entry produces
\* none, every entry has been gone through when the run ends, and the run
\* does not stop once the listing is taken.
C1_OneLinePerFile ==
    /\ \A k \in 1..Len(listing) :
          Processed(k) =>
             /\ ent[k].visited
             /\ Cardinality(LinesOf(listing[k])) = IF ent[k].isfile THEN 1 ELSE 0
    /\ listing # <<>> => pc # "crashed"

C1_Witness ==
    /\ pc = "done"
    /\ \E j, k \in 1..Len(listing) :
          /\ j < k
          /\ KindsOf(listing[j]) \cap {"skip", "not_found", "error"} # {}
          /\ KindsOf(listing[k]) = {"converted"}

\* The name the output of entry n is to have: base name, a period, the
\* lower-cased format.
ExpectedName(n) == Stem(n) \o <<Lower(pfmt)>>
Converted == {k \in 1..Len(listing) : "converted" \in KindsOf(listing[k])}
LastForItsName(k) ==
    \A j \in 1..Len(listing) :
       (j > k /\ ent[j].called) => Stem(listing[j]) # Stem(listing[k])

\* C2 as stated: after a run with a supported format, every input with a
\* success line has its output <base>.<format> holding its own re-encoding,
\* and the run added no other file.
C2_EveryOutputKept ==
    (pc = "done" /\ Supported(pfmt)) =>
       /\ \A k \in Converted :
             /\ ExpectedName(listing[k]) \in DOMAIN files[output_dir]
             /\ files[output_dir][ExpectedName(listing[k])]
                   = Encode(ent[k].src, pfmt, args.quality)
       /\ (DOMAIN files[output_dir]) \ (DOMAIN runStart.files)
             \subseteq {ExpectedName(listing[k]) : k \in Converted}

\* C2 amended: after a run with a supported format, every input with a
\* success line has an output file <base>.<format>; the file holds the
\* re-encoding of that input when no later entry with the same base name was
\* handed to convert_image; and the run added no other file.
C2_LastOutputKept ==
    (pc = "done" /\ Supported(pfmt)) =>
       /\ \A k \in Converted :
             /\ ExpectedName(listing[k]) \in DOMAIN files[output_dir]
             /\ LastForItsName(k) =>
                   files[output_dir][ExpectedName(listing[k])]
                      = Encode(ent[k].src, pfmt, args.quality)
       /\ (DOMAIN files[output_dir]) \ (DOMAIN runStart.files)
             \subseteq {ExpectedName(listing[k]) : k \in Converted}

C2_Witness ==
    /\ pc = "done"
    /\ args.output_format = "PNG"
    /\ \E j, k \in Converted :
          /\ j < k
          /\ Stem(listing[j]) = Stem(listing[k])
          /\ files[output_dir][ExpectedName(listing[k])]
                = Encode(ent[k].src, pfmt, args.quality)

\* C3: a call of convert_image that ends with the unsupported-format, the
\* not-found or the generic error message leaves the files of output_dir and
\* their contents as they were when the call began.
C3_FailureWritesNothing ==
    [][ ( /\ pc \in {"open", "save"}
          /\ Len(lines') > Len(lines)
          /\ lines'[Len(lines')].kind \in Failures )
        => files'[output_dir] = callSnap' ]_vars

\* C4: when input_dir is missing or no directory, main prints the error once
\* and stops: process_directory is not invoked, output_dir is not created,
\* nothing is listed, opened or written, and no completion line is printed.
C4_MissingInputStops ==
    (args.entry = "main" /\ dstate[input_dir] \in {"absent", "file"}) =>
       /\ pc \in {"main", "rejected"}
       /\ lines = IF pc = "rejected" THEN <<Line("no_input_dir", NoPath)>> ELSE <<>>
       /\ pfmt = "-"
       /\ dstate[output_dir] = runStart.state
       /\ files[output_dir] = runStart.files
       /\ listing = <<>> /\ ent = <<>> /\ handles = {}

C4_Witness ==
    /\ args.entry = "main"
    /\ dstate[input_dir] = "file"
    /\ dstate[output_dir] = "absent"
    /\ pc = "rejected"

\* C5: when output_dir does not exist at the start of a run, no entry is
\* processed and no output is written before it exists as a directory, and
\* the creation line is printed once if this run created it, else never.
C5_CreatedBeforeEntries ==
    /\ (runStart.state \in {"absent", "blocked"}
          /\ pc \in {"isfile", "trial", "open", "save", "return", "done"})
       => dstate[output_dir] = "dir"
    /\ Count("created") =
          IF runStart.state \in {"absent", "blocked"} /\ dstate[output_dir] = "dir"
          THEN 1 ELSE 0

C5_Witness ==
    /\ runStart.state = "absent"
    /\ pc = "done"
    /\ \E k \in 1..Len(listing) :
          /\ ent[k].enc # NoContent
          /\ ExpectedName(listing[k]) \in DOMAIN files[output_dir]

\* C6: convert_image is invoked on an entry exactly when the entry is a
\* regular file whose trial decode succeeded; a regular file whose trial
\* decode failed has the skip line and nothing else, no call and no output;
\* a subdirectory has no line, no trial decode, no call and no output.
C6_OnlyImagesConverted ==
    \A k \in 1..Len(listing) :
       Processed(k) =>
          /\ ent[k].called <=> (ent[k].isfile /\ ent[k].trial = "ok")
          /\ ent[k].trial = "fail" =>
                /\ KindsOf(listing[k]) = {"skip"}
                /\ ~ent[k].called /\ ~ent[k].opened /\ ent[k].enc = NoContent
          /\ "skip" \in KindsOf(listing[k]) => ent[k].trial = "fail"
          /\ ent[k].kind = "dir" =>
                /\ LinesOf(listing[k]) = {}
                /\ ent[k].trial = "none"
                /\ ~ent[k].called /\ ~ent[k].opened /\ ent[k].enc = NoContent

C6_Witness ==
    /\ pc = "done"
    /\ \E j, k \in 1..Len(listing) :
          /\ ent[j].kind = "text" /\ ent[j].trial = "fail"
          /\ ent[k].called /\ ent[k].enc # NoContent

ErrorLines(ls) == {ls[k] : k \in {j \in 1..Len(ls) : ls[j].kind \in Failures}}

\* C7 as stated: a second run with the same arguments, nothing else having
\* touched the directories, leaves output_dir with the names and contents it
\* had after the first, and prints no error line the first did not print.
C7_SecondRunSame ==
    (run >= 2 /\ pc \in Terminal /\ vanished = 0) =>
       /\ files[output_dir] = prevOut
       /\ ErrorLines(lines) \subseteq ErrorLines(prevLines)

\* C7 amended: the same, when output_dir is another directory than input_dir.
C7_SecondRunSameApart ==
    (run >= 2 /\ pc \in Terminal /\ vanished = 0 /\ output_dir # input_dir) =>
       /\ files[output_dir] = prevOut
       /\ ErrorLines(lines) \subseteq ErrorLines(prevLines)

C7_Witness ==
    /\ run = 2 /\ pc = "done" /\ vanished = 0 /\ output_dir # input_dir
    /\ \E k \in Converted :
          /\ ExpectedName(listing[k]) \in DOMAIN prevOut
          /\ files[output_dir] = prevOut
    /\ ErrorLines(lines) # {}

\* C8: with input_dir an existing directory, a run of main ends normally,
\* the completion line being the last line printed; no failure escapes.
C8_AlwaysCompletes ==
    (args.entry = "main" /\ dstate[input_dir] \in {"dir", "unreadable"}) =>
       /\ pc # "crashed"
       /\ pc \in Terminal =>
             /\ pc = "done"
             /\ lines # <<>>
             /\ lines[Len(lines)] = Line("completed", NoPath)

\* C9: a regular file that was listed and is deleted before convert_image
\* decodes it is reported with the not-found line and with no other line.
C9_VanishedIsNotFound ==
    \A k \in 1..Len(listing) :
       (Processed(k) /\ ent[k].kind # "dir" /\ ent[k].vanishedAt # "never") =>
          /\ Cardinality(LinesOf(listing[k])) = 1
          /\ KindsOf(listing[k]) = {"not_found"}

\* C10: when the processing of an entry starts, and when the run ends, no
\* handle opened for an earlier entry is open.
C10_NoHandleHeld ==
    pc \in {"isfile", "return", "done", "rejected", "crashed"} => handles = {}

C10_Witness ==
    /\ pc = "isfile"
    /\ i >= 2
    /\ ent[i - 1].trial = "ok" /\ ent[i - 1].called /\ ent[i - 1].src # NoContent

====
